---- MODULE Spec2Model ----
(***************************************************************************)
(* rust-pentagram: the graphics-context lifecycle (WgpuState) and the      *)
(* three host event loops that drive it.                                   *)
(*                                                                         *)
(*   host "workspace" : src/workspace/src/lib.rs  + src/workspace/src/state.rs *)
(*   host "main"      : src/src/main.rs           + src/src/state.rs       *)
(*   host "lib"       : src/src/lib.rs            + src/src/state.rs       *)
(*                                                                         *)
(* An Option<T> is a sequence of length 0 (None) or 1 (Some).              *)
(***************************************************************************)
EXTENDS Integers, Sequences, FiniteSets, TLC

\* ---------------------------------------------------------------- bounds
MaxDim == 2
MaxNow == 3
MaxFrameTime == 2
MaxSeed == 1
MaxPoints == 6
MaxDuration == 3
MaxRecorded == 3
MaxStatNow == 121
MaxStatTime == 2

\* ------------------------------------------------------ program constants
STAR_INSTANCE_COUNT == 500
num_points == 5
F64_MAX == 1000000
U16 == 65536
REPORT_PERIOD == 60
desired_maximum_frame_latency == 1

None == <<>>
Some(x) == <<x>>
IsSome(o) == Len(o) = 1
IsNone(o) == Len(o) = 0
Unwrap(o) == o[1]

Dims == 0..MaxDim
Sizes == Dims \X Dims
FrameTimes == 1..MaxFrameTime
Seeds == 0..MaxSeed

Hosts == {"workspace", "main", "lib"}
Targets == {"native", "wasm32"}
\* main.rs has no wasm32 branch; lib.rs files of both crates are built for both
Builds == {<<"workspace", "native">>, <<"workspace", "wasm32">>,
           <<"main", "native">>, <<"lib", "native">>, <<"lib", "wasm32">>}

\* Result<SurfaceTexture, SurfaceError> of surface.get_current_texture()
AcquireOutcomes == {"Ok", "Lost", "Outdated", "OutOfMemory", "Timeout"}

\* what the platform reports for the surface (formats, present modes), in order
CapsSet == { [formats |-> <<"Bgra8UnormSrgb", "Rgba8Unorm">>, present_modes |-> <<"Fifo", "Mailbox">>],
             [formats |-> <<"Rgba8Unorm", "Bgra8UnormSrgb">>, present_modes |-> <<"Mailbox", "Fifo">>] }

VARIABLES
    host,               \* which event loop runs
    target,             \* cfg!(target_arch)
    local_size,         \* Option: `let size = window.inner_size()` while the constructor runs
    surface_caps,       \* surface.get_capabilities(&adapter)
    proc,               \* "init" | "running" | "exited" | "aborted"
    phase,              \* negotiation state of the context under construction
    ctx,                \* Option<WgpuState>: App.wgpu_state / `state`
    surface,            \* the presentation surface: configuration last applied to it
    surface_configured, \* local of run() in the workspace host
    redraw_pending,     \* window.request_redraw() asked for and not yet delivered
    now,                \* Instant::now(), in ticks
    init_failure,       \* "none" | "NoAdapterFound" | "DeviceRequestFailed"
    last,               \* what the last handler did (observation record)
    emitted,            \* number of statistics snapshots written to the log so far
    completed,          \* number of render() calls that ran to the end and returned Ok
    job                 \* a pure function run on its own: its inputs and, once run, its outputs

vars == <<host, target, local_size, surface_caps, proc, phase, ctx, surface,
          surface_configured, redraw_pending, now, init_failure, last, emitted,
          completed, job>>

\* ------------------------------------------------------- Geometry Factory
\* A vertex is kept symbolically: the centre, or the outer point at angle
\* k * 2*PI/num_points - PI/2 on the circle of radius 1.
RECURSIVE OuterLoop(_, _)
OuterLoop(i, vertices) ==
    IF i >= num_points THEN vertices
    ELSE OuterLoop(i + 1, Append(vertices, [center |-> FALSE, k |-> i]))

get_vertices == OuterLoop(0, <<[center |-> TRUE, k |-> 0]>>)

AsU16(x) == x % U16

\* a star that joins each outer point to the one three ahead
RECURSIVE IndexLoop_three_ahead(_, _)
IndexLoop_three_ahead(i, indices) ==
    IF i >= num_points THEN indices
    ELSE LET current == 1 + i
             next == 1 + ((i + 3) % num_points)
         IN IndexLoop_three_ahead(i + 1, indices \o <<0, AsU16(current), AsU16(next)>>)

\* a star whose index loop stops one triangle short
RECURSIVE IndexLoop_stop(_, _)
IndexLoop_stop(i, indices) ==
    IF i >= num_points - 1 THEN indices
    ELSE LET current == 1 + i
             next == 1 + ((i + 2) % num_points)
         IN IndexLoop_stop(i + 1, indices \o <<0, AsU16(current), AsU16(next)>>)

RECURSIVE IndexLoop(_, _)
IndexLoop(i, indices) ==
    IF i >= num_points THEN indices
    ELSE LET current == 1 + i
             next == 1 + ((i + 2) % num_points)
         IN IndexLoop(i + 1, indices \o <<0, AsU16(current), AsU16(next)>>)

create_star_vertices == [vertices |-> get_vertices, indices |-> IndexLoop(0, <<>>)]

RECURSIVE root_OuterLoop(_, _)
root_OuterLoop(i, vertices) ==
    IF i >= num_points THEN vertices
    ELSE root_OuterLoop(i + 1, Append(vertices, [center |-> FALSE, k |-> i]))

\* a star that joins each outer point to its neighbour
RECURSIVE root_IndexLoop_adjacent(_, _)
root_IndexLoop_adjacent(i, indices) ==
    IF i >= num_points THEN indices
    ELSE LET current == 1 + i
             next == 1 + ((i + 1) % num_points)
         IN root_IndexLoop_adjacent(i + 1, indices \o <<0, AsU16(current), AsU16(next)>>)

RECURSIVE root_IndexLoop(_, _)
root_IndexLoop(i, indices) ==
    IF i >= num_points THEN indices
    ELSE LET current == 1 + i
             next == 1 + ((i + 2) % num_points)
         IN root_IndexLoop(i + 1, indices \o <<0, AsU16(current), AsU16(next)>>)

root_create_star_vertices ==
    [vertices |-> root_OuterLoop(0, <<[center |-> TRUE, k |-> 0]>>),
     indices |-> root_IndexLoop(0, <<>>)]

\* The same two loops with the literal `let num_points = 5` read as n.
RECURSIVE OuterLoopFor(_, _, _)
OuterLoopFor(n, i, vertices) ==
    IF i >= n THEN vertices
    ELSE OuterLoopFor(n, i + 1, Append(vertices, [center |-> FALSE, k |-> i]))

RECURSIVE IndexLoopFor(_, _, _)
IndexLoopFor(n, i, indices) ==
    IF i >= n THEN indices
    ELSE LET current == 1 + i
             next == 1 + ((i + 2) % n)
         IN IndexLoopFor(n, i + 1, indices \o <<0, AsU16(current), AsU16(next)>>)

\* primitive state of the pipeline: front_face Ccw, cull_mode Some(Back)
PrimitiveState == [topology |-> "TriangleList", front_face |-> "Ccw", cull_mode |-> "Back"]

\* Orientation of the triangle (centre, outer point a, outer point b), by its
\* indices: the outer points lie at increasing angles of 2*PI/num_points, so
\* the turn from a to b is counter-clockwise when b is fewer than half of
\* the points ahead of a, clockwise when more.
Winding(tri) ==
    LET ahead == ((tri[3] - tri[2]) + num_points) % num_points
    IN IF tri[1] # 0 \/ tri[2] = 0 \/ tri[3] = 0 \/ ahead = 0 \/ 2 * ahead = num_points
       THEN "Degenerate"
       ELSE IF 2 * ahead < num_points THEN "Ccw" ELSE "Cw"

\* what back-face culling removes
Culled(tri) == PrimitiveState.cull_mode = "Back" /\ Winding(tri) # PrimitiveState.front_face

\* ----------------------------------------------------- Instance Populator
\* The generator is a stream of samples determined by its seed; sample n of
\* seed s is a level in 0..RngLevels-1 of the unit interval [0,1).
\* Values are in thousandths.
RngLevels == 8
TWO_PI_MILLI == 6283

Sample(seed, n) == (seed * 5 + n * 3 + (n \div RngLevels) + 1) % RngLevels

\* a range that includes its upper end
gen_range_closed(lo, hi, seed, n) == lo + ((hi - lo) * Sample(seed, n)) \div (RngLevels - 1)

\* rng.gen_range(lo..hi): half-open, lo + (hi - lo) * u with u in [0,1)
gen_range(lo, hi, seed, n) == lo + ((hi - lo) * Sample(seed, n)) \div RngLevels

\* a generator seeded from the operating system on every target
RngSeeds_os(tgt) == Seeds

\* the seed the generator starts from: SmallRng::seed_from_u64(0) on wasm32,
\* thread_rng() (seeded from the OS) otherwise
RngSeeds(tgt) == IF tgt = "wasm32" THEN {0} ELSE Seeds

Instance(seed, n) ==
    [position |-> <<gen_range(0 - 900, 900, seed, n), gen_range(0 - 900, 900, seed, n + 1)>>,
     scale |-> gen_range(20, 50, seed, n + 2),
     initial_rotation |-> gen_range(0, TWO_PI_MILLI, seed, n + 3),
     speed |-> <<gen_range(0 - 300, 300, seed, n + 4), gen_range(0 - 300, 300, seed, n + 5)>>,
     rotation_speed |-> gen_range(500, 2000, seed, n + 6)]

\* for _ in 0..STAR_INSTANCE_COUNT { instances.push(..) }: pass i (from 0) pushes
\* the instance made of draws 7i .. 7i+6 of the generator
InstanceLoop_short(seed) ==
    [i \in 1..(STAR_INSTANCE_COUNT - 1) |-> Instance(seed, 7 * (i - 1))]

InstanceLoop(seed) ==
    [i \in 1..STAR_INSTANCE_COUNT |-> Instance(seed, 7 * (i - 1))]

create_star_instances(seed) == InstanceLoop(seed)

root_InstanceLoop(seed) ==
    [i \in 1..STAR_INSTANCE_COUNT |-> Instance(seed, 7 * (i - 1))]

root_create_star_instances(seed) == root_InstanceLoop(seed)

\* --------------------------------------------------------- Frame Statistics
\* statistics that count a frame before any is rendered
FrameStats_new_one == [min_time |-> F64_MAX, max_time |-> 0, total_time |-> 0, frame_count |-> 1]

FrameStats_new == [min_time |-> F64_MAX, max_time |-> 0, total_time |-> 0, frame_count |-> 0]

\* statistics that start afresh after each report
update_restart(fs, frame_time) ==
    IF fs.frame_count = REPORT_PERIOD
    THEN [min_time |-> frame_time, max_time |-> frame_time,
          total_time |-> frame_time, frame_count |-> 1]
    ELSE [min_time |-> IF frame_time < fs.min_time THEN frame_time ELSE fs.min_time,
          max_time |-> IF frame_time > fs.max_time THEN frame_time ELSE fs.max_time,
          total_time |-> fs.total_time + frame_time,
          frame_count |-> fs.frame_count + 1]

\* a minimum that moves the wrong way
update_min_up(fs, frame_time) ==
    [min_time |-> IF frame_time > fs.min_time THEN frame_time ELSE fs.min_time,
     max_time |-> IF frame_time > fs.max_time THEN frame_time ELSE fs.max_time,
     total_time |-> fs.total_time + frame_time,
     frame_count |-> fs.frame_count + 1]

update(fs, frame_time) ==
    [min_time |-> IF frame_time < fs.min_time THEN frame_time ELSE fs.min_time,
     max_time |-> IF frame_time > fs.max_time THEN frame_time ELSE fs.max_time,
     total_time |-> fs.total_time + frame_time,
     frame_count |-> fs.frame_count + 1]

RECURSIVE Gcd(_, _)
Gcd(a, b) == IF b = 0 THEN a ELSE Gcd(b, a % b)

\* total_time / frame_count as a fraction in lowest terms, <<numerator, denominator>>
average_time(fs) ==
    IF fs.frame_count = 0 THEN <<0, 1>>
    ELSE LET g == Gcd(fs.total_time, fs.frame_count)
         IN <<fs.total_time \div g, fs.frame_count \div g>>

display_stats(fs) ==
    [min |-> fs.min_time, max |-> fs.max_time, average |-> average_time(fs), count |-> fs.frame_count]

\* ---------------------------------------------------------- Graphics Context
\* The surface as the backend sees it: the configuration last applied to it.
Surface_new == [config |-> None]

\* a configuration that prefers the last reported format and allows two
\* queued frames
SurfaceConfiguration_last(size, caps) ==
    [format |-> caps.formats[Len(caps.formats)],
     width |-> IF size[1] > 1 THEN size[1] ELSE 1,
     height |-> IF size[2] > 1 THEN size[2] ELSE 1,
     present_mode |-> caps.present_modes[1],
     desired_maximum_frame_latency |-> 2]

SurfaceConfiguration(size, caps) ==
    [format |-> caps.formats[1],
     width |-> IF size[1] > 1 THEN size[1] ELSE 1,
     height |-> IF size[2] > 1 THEN size[2] ELSE 1,
     present_mode |-> caps.present_modes[1],
     desired_maximum_frame_latency |-> desired_maximum_frame_latency]

\* The instance buffer is written once, at creation, with the generated
\* instances; it is kept as the seed that determines them and their number.
InstanceBuffer(seed, instances) == [seed |-> seed, len |-> Len(instances)]

\* WgpuState::new of the workspace crate, from surface_caps on: the device and
\* queue have been obtained
new(size, caps, seed, t) ==
    LET config == SurfaceConfiguration(size, caps)
        star == create_star_vertices
        instances == create_star_instances(seed)
    IN [ctx |-> [device |-> Some("device"),
                 queue |-> Some("queue"),
                 config |-> Some(config),
                 size |-> size,
                 render_pipeline |-> Some([format |-> config.format, builds |-> 1]),
                 vertex_buffer |-> Some(star.vertices),
                 num_vertices |-> Some(Len(star.vertices)),
                 index_buffer |-> Some(star.indices),
                 num_indices |-> Some(Len(star.indices)),
                 uniform_buffer |-> Some(0),
                 uniform_bind_group |-> Some("uniform_bind_group"),
                 instance_buffer |-> Some(InstanceBuffer(seed, instances)),
                 start_time |-> Some(t),
                 frame_stats |-> FrameStats_new],
        surface |-> [config |-> Some(config)]]

\* WgpuState::new_async of the root crate, from surface_caps on
new_async(size, caps, seed, t) ==
    LET config == SurfaceConfiguration(size, caps)
        star == root_create_star_vertices
        instances == root_create_star_instances(seed)
    IN [ctx |-> [device |-> Some("device"),
                 queue |-> Some("queue"),
                 config |-> Some(config),
                 size |-> size,
                 render_pipeline |-> Some([format |-> config.format, builds |-> 1]),
                 vertex_buffer |-> Some(star.vertices),
                 num_vertices |-> Some(Len(star.vertices)),
                 index_buffer |-> Some(star.indices),
                 num_indices |-> Some(Len(star.indices)),
                 uniform_buffer |-> Some(0),
                 uniform_bind_group |-> Some("uniform_bind_group"),
                 instance_buffer |-> Some(InstanceBuffer(seed, instances)),
                 start_time |-> Some(t)],
        surface |-> [config |-> Some(config)]]

\* WgpuState::new_wasm of the root crate: the surface is bound, nothing else is
new_wasm(size) ==
    [device |-> None,
     queue |-> None,
     config |-> None,
     size |-> size,
     render_pipeline |-> None,
     vertex_buffer |-> None,
     num_vertices |-> None,
     index_buffer |-> None,
     num_indices |-> None,
     uniform_buffer |-> None,
     uniform_bind_group |-> None,
     instance_buffer |-> None,
     start_time |-> None]

\* every optional field of the context is present
Complete(c) ==
    /\ IsSome(c.device) /\ IsSome(c.queue) /\ IsSome(c.config)
    /\ IsSome(c.render_pipeline) /\ IsSome(c.uniform_bind_group)
    /\ IsSome(c.vertex_buffer) /\ IsSome(c.index_buffer) /\ IsSome(c.instance_buffer)
    /\ IsSome(c.uniform_buffer) /\ IsSome(c.num_vertices) /\ IsSome(c.num_indices)
    /\ IsSome(c.start_time)

\* ------------------------------------------------------------------ resize
\* Result: the context and surface afterwards, whether surface.configure was
\* invoked, whether an unwrap() panicked.
ResizeGuard_either(new_size) == new_size[1] > 0 \/ new_size[2] > 0

ResizeGuard(new_size) == new_size[1] > 0 /\ new_size[2] > 0

ConfigResized_swapped(config, new_size) ==
    [config EXCEPT !.width = new_size[2], !.height = new_size[1]]

\* config.width = new_size.width; config.height = new_size.height
ConfigResized(config, new_size) ==
    [config EXCEPT !.width = new_size[1], !.height = new_size[2]]

\* a resize that stores the new configuration and leaves the surface alone
configure_skipped(s, config) == s

\* self.surface.configure(&self.device, &self.config)
configure(s, config) == [s EXCEPT !.config = config]

resize(c, s, new_size) ==
    IF ResizeGuard(new_size)
    THEN LET c1 == [c EXCEPT !.size = new_size]
             c2 == IF IsSome(c1.config)
                   THEN [c1 EXCEPT !.config = Some(ConfigResized(Unwrap(c1.config), new_size))]
                   ELSE c1
         IN IF IsNone(c2.device) \/ IsNone(c2.config)
            THEN [ctx |-> c2, surface |-> s, configured |-> FALSE, panicked |-> TRUE]
            ELSE [ctx |-> c2, surface |-> configure(s, c2.config),
                  configured |-> TRUE, panicked |-> FALSE]
    ELSE [ctx |-> c, surface |-> s, configured |-> FALSE, panicked |-> FALSE]

root_ResizeGuard(new_size) == new_size[1] > 0 /\ new_size[2] > 0

root_resize(c, s, new_size) ==
    IF root_ResizeGuard(new_size)
    THEN LET c1 == [c EXCEPT !.size = new_size]
             c2 == IF IsSome(c1.config)
                   THEN [c1 EXCEPT !.config = Some([Unwrap(c1.config) EXCEPT
                                          !.width = new_size[1], !.height = new_size[2]])]
                   ELSE c1
         IN IF IsNone(c2.device) \/ IsNone(c2.config)
            THEN [ctx |-> c2, surface |-> s, configured |-> FALSE, panicked |-> TRUE]
            ELSE [ctx |-> c2, surface |-> [s EXCEPT !.config = c2.config],
                  configured |-> TRUE, panicked |-> FALSE]
    ELSE [ctx |-> c, surface |-> s, configured |-> FALSE, panicked |-> FALSE]

\* ------------------------------------------------------------------ render
\* get_current_texture() on a surface that was never configured is a fatal
\* backend error; otherwise its outcome acq is the platform's.
GetCurrentTexture(s, acq) == IF IsNone(s.config) THEN "Unconfigured" ELSE acq

\* a guard that also wants a window of positive size
RenderGuard_sized(c) ==
    /\ IsSome(c.queue) /\ IsSome(c.device) /\ IsSome(c.uniform_buffer)
    /\ IsSome(c.render_pipeline) /\ IsSome(c.uniform_bind_group)
    /\ IsSome(c.vertex_buffer) /\ IsSome(c.index_buffer)
    /\ IsSome(c.instance_buffer) /\ IsSome(c.num_indices)
    /\ c.size[1] > 0 /\ c.size[2] > 0

RenderGuard(c) ==
    /\ IsSome(c.queue) /\ IsSome(c.device) /\ IsSome(c.uniform_buffer)
    /\ IsSome(c.render_pipeline) /\ IsSome(c.uniform_bind_group)
    /\ IsSome(c.vertex_buffer) /\ IsSome(c.index_buffer)
    /\ IsSome(c.instance_buffer) /\ IsSome(c.num_indices)

\* a clear colour chosen by target
ClearColor_policy(tgt) == IF tgt = "wasm32" THEN "TRANSPARENT" ELSE "BLACK"

\* load: wgpu::LoadOp::Clear(wgpu::Color::TRANSPARENT), under no cfg
ClearColor(tgt) == "TRANSPARENT"

\* the one render pass the guarded block records
RenderPass(c, tgt) ==
    [clear |-> ClearColor(tgt),
     pipeline |-> c.render_pipeline,
     bind_group |-> c.uniform_bind_group,
     vertex_buffer_0 |-> Len(Unwrap(c.vertex_buffer)),
     vertex_buffer_1 |-> Unwrap(c.instance_buffer).len,
     index_buffer |-> Len(Unwrap(c.index_buffer)),
     index_format |-> "Uint16",
     draws |-> << [indices |-> <<0, Unwrap(c.num_indices)>>,
                   base_vertex |-> 0,
                   instances |-> <<0, STAR_INSTANCE_COUNT>>] >>]

\* a frame that also rebuilds the pipeline
WriteUniform_rebuild(c, time) ==
    [c EXCEPT !.uniform_buffer = Some(time),
              !.render_pipeline = Some([Unwrap(c.render_pipeline) EXCEPT !.builds = @ + 1])]

\* queue.write_buffer(uniform_buffer, 0, [time]): the one write of a frame
WriteUniform(c, time) == [c EXCEPT !.uniform_buffer = Some(time)]

\* a frame presented before its commands are submitted
RenderSteps_present_early(drawn) ==
    IF drawn
    THEN <<"AcquireFrame", "UpdateUniform", "RecordCommands", "Present", "Submit">>
    ELSE <<"AcquireFrame", "Present">>

\* the calls of a render() that acquired its frame, in program order:
\* get_current_texture; inside the guard write_buffer, the encoder and its
\* pass, queue.submit; then output.present()
RenderSteps(drawn) ==
    IF drawn
    THEN <<"AcquireFrame", "UpdateUniform", "RecordCommands", "Submit", "Present">>
    ELSE <<"AcquireFrame", "Present">>

RenderPanic(c, t, steps) ==
    [ctx |-> c, result |-> "panic", steps |-> steps, pass |-> None,
     snapshot |-> None, now |-> t]

\* a report on the frame after each multiple of the period
ShouldReport_after(fs) == fs.frame_count % REPORT_PERIOD = 1

\* if self.frame_stats.frame_count % 60 == 0 { display_stats() }
ShouldReport(fs) == fs.frame_count % REPORT_PERIOD = 0

\* WgpuState::render of the workspace crate.  acq: outcome of the frame
\* acquisition; frame_time: ticks from render_before_time to render_after_time;
\* t: Instant::now() on entry.
render(c, s, acq, frame_time, tgt, t) ==
    IF GetCurrentTexture(s, acq) # "Ok" THEN RenderPanic(c, t, <<>>)
    ELSE IF IsNone(c.start_time) THEN RenderPanic(c, t, <<"AcquireFrame">>)
    ELSE LET time == t - Unwrap(c.start_time)
             drawn == RenderGuard(c)
             c1 == IF drawn THEN WriteUniform(c, time) ELSE c
             \* if cfg!(not(target_arch = "wasm32")) {..} else {..}: both arms
             \* record the duration
             stats == IF tgt # "wasm32"
                      THEN update(c1.frame_stats, frame_time)
                      ELSE update(c1.frame_stats, frame_time)
             c2 == [c1 EXCEPT !.frame_stats = stats]
         IN [ctx |-> c2,
             result |-> "Ok",
             steps |-> RenderSteps(drawn),
             pass |-> IF drawn THEN Some(RenderPass(c1, tgt)) ELSE None,
             snapshot |-> IF ShouldReport(stats)
                          THEN Some(display_stats(stats)) ELSE None,
             now |-> t + frame_time]

\* WgpuState::render of the root crate: no frame statistics
root_render(c, s, acq, frame_time, tgt, t) ==
    IF GetCurrentTexture(s, acq) # "Ok" THEN RenderPanic(c, t, <<>>)
    ELSE IF IsNone(c.start_time) THEN RenderPanic(c, t, <<"AcquireFrame">>)
    ELSE LET time == t - Unwrap(c.start_time)
             drawn == RenderGuard(c)
             c1 == IF drawn THEN WriteUniform(c, time) ELSE c
         IN [ctx |-> c1,
             result |-> "Ok",
             steps |-> RenderSteps(drawn),
             pass |-> IF drawn THEN Some(RenderPass(c1, tgt)) ELSE None,
             snapshot |-> None,
             now |-> t + frame_time]

\* ------------------------------------------------------------- observation
\* What one handler did, kept so that properties can speak of it.
NoObs ==
    [ev |-> "none", size |-> <<0, 0>>, partial |-> FALSE,
     resize_called |-> FALSE, configured |-> FALSE,
     render_called |-> FALSE, acquire |-> "none", result |-> "none",
     steps |-> <<>>, pass |-> None, snapshot |-> None,
     redraw_requested |-> FALSE, exit_requested |-> FALSE]

\* while the program runs no function is run on its own
NoJob == [kind |-> "none"]

\* ------------------------------------------------------------ construction
Init ==
    /\ \E b \in Builds : host = b[1] /\ target = b[2]
    /\ local_size = None
    /\ surface_caps \in CapsSet
    /\ proc = "init"
    /\ phase = "Uninitialized"
    /\ ctx = None
    /\ surface = Surface_new
    /\ surface_configured = FALSE
    /\ redraw_pending = FALSE
    /\ now = 0
    /\ init_failure = "none"
    /\ last = NoObs
    /\ emitted = 0
    /\ completed = 0
    /\ job = NoJob

Static == <<host, target, surface_caps, job>>

\* workspace crate, WgpuState::new: instance.create_surface(window).unwrap()
new_CreateSurface ==
    /\ host = "workspace" /\ proc = "init" /\ phase = "Uninitialized"
    /\ \E size \in Sizes : local_size' = Some(size)
    /\ phase' = "SurfaceBound"
    /\ UNCHANGED <<Static, emitted, completed, proc, ctx, surface, surface_configured, redraw_pending,
                   now, init_failure, last>>

\* a constructor that takes the device along with the adapter
new_RequestAdapter_skip ==
    /\ host = "workspace" /\ proc = "init" /\ phase = "SurfaceBound"
    /\ \E found \in BOOLEAN :
          IF found
          THEN phase' = "DeviceReady" /\ UNCHANGED <<proc, init_failure>>
          ELSE proc' = "aborted" /\ init_failure' = "NoAdapterFound" /\ UNCHANGED phase
    /\ UNCHANGED <<Static, emitted, completed, local_size, ctx, surface, surface_configured, redraw_pending, now, last>>

\* instance.request_adapter(..).await.unwrap()
new_RequestAdapter ==
    /\ host = "workspace" /\ proc = "init" /\ phase = "SurfaceBound"
    /\ \E found \in BOOLEAN :
          IF found
          THEN phase' = "AdapterSelected" /\ UNCHANGED <<proc, init_failure>>
          ELSE proc' = "aborted" /\ init_failure' = "NoAdapterFound" /\ UNCHANGED phase
    /\ UNCHANGED <<Static, emitted, completed, local_size, ctx, surface, surface_configured, redraw_pending, now, last>>

\* a degraded-mode fallback: the failure is swallowed and a context without
\* device is handed to the host
new_RequestDevice_degraded ==
    /\ host = "workspace" /\ proc = "init" /\ phase = "AdapterSelected"
    /\ \E granted \in BOOLEAN :
          IF granted
          THEN /\ phase' = "DeviceReady"
               /\ UNCHANGED <<proc, init_failure, ctx, local_size>>
          ELSE /\ proc' = "running"
               /\ init_failure' = "DeviceRequestFailed"
               /\ ctx' = Some(new_wasm(Unwrap(local_size)))
               /\ local_size' = None
               /\ UNCHANGED phase
    /\ UNCHANGED <<Static, emitted, completed, surface, surface_configured, redraw_pending, now, last>>

\* adapter.request_device(..).await; Err(err) => panic!
new_RequestDevice ==
    /\ host = "workspace" /\ proc = "init" /\ phase = "AdapterSelected"
    /\ \E granted \in BOOLEAN :
          IF granted
          THEN phase' = "DeviceReady" /\ UNCHANGED <<proc, init_failure>>
          ELSE proc' = "aborted" /\ init_failure' = "DeviceRequestFailed" /\ UNCHANGED phase
    /\ UNCHANGED <<Static, emitted, completed, local_size, ctx, surface, surface_configured, redraw_pending, now, last>>

\* the rest of new: configure the surface, build pipeline and buffers, return
\* the context to run(), which sets surface_configured = false
new_Finish ==
    /\ host = "workspace" /\ proc = "init" /\ phase = "DeviceReady"
    /\ \E seed \in RngSeeds(target) :
          LET r == new(Unwrap(local_size), surface_caps, seed, now)
          IN /\ ctx' = Some(r.ctx)
             /\ surface' = r.surface
    /\ local_size' = None
    /\ phase' = "SurfaceConfigured"
    /\ proc' = "running"
    /\ surface_configured' = FALSE
    /\ last' = [NoObs EXCEPT !.ev = "init", !.configured = TRUE]
    /\ UNCHANGED <<Static, emitted, completed, redraw_pending, now, init_failure>>

\* root crate, native: App::resumed -> WgpuState::native_new -> new_async
new_async_CreateSurface ==
    /\ host \in {"main", "lib"} /\ target = "native"
    /\ proc = "init" /\ phase = "Uninitialized"
    /\ \E size \in Sizes : local_size' = Some(size)
    /\ phase' = "SurfaceBound"
    /\ UNCHANGED <<Static, emitted, completed, proc, ctx, surface, surface_configured, redraw_pending,
                   now, init_failure, last>>

new_async_RequestAdapter ==
    /\ host \in {"main", "lib"} /\ target = "native"
    /\ proc = "init" /\ phase = "SurfaceBound"
    /\ \E found \in BOOLEAN :
          IF found
          THEN phase' = "AdapterSelected" /\ UNCHANGED <<proc, init_failure>>
          ELSE proc' = "aborted" /\ init_failure' = "NoAdapterFound" /\ UNCHANGED phase
    /\ UNCHANGED <<Static, emitted, completed, local_size, ctx, surface, surface_configured, redraw_pending, now, last>>

new_async_RequestDevice ==
    /\ host \in {"main", "lib"} /\ target = "native"
    /\ proc = "init" /\ phase = "AdapterSelected"
    /\ \E granted \in BOOLEAN :
          IF granted
          THEN phase' = "DeviceReady" /\ UNCHANGED <<proc, init_failure>>
          ELSE proc' = "aborted" /\ init_failure' = "DeviceRequestFailed" /\ UNCHANGED phase
    /\ UNCHANGED <<Static, emitted, completed, local_size, ctx, surface, surface_configured, redraw_pending, now, last>>

new_async_Finish ==
    /\ host \in {"main", "lib"} /\ target = "native"
    /\ proc = "init" /\ phase = "DeviceReady"
    /\ \E seed \in RngSeeds(target) :
          LET r == new_async(Unwrap(local_size), surface_caps, seed, now)
          IN /\ ctx' = Some(r.ctx)
             /\ surface' = r.surface
    /\ local_size' = None
    /\ phase' = "SurfaceConfigured"
    /\ proc' = "running"
    /\ last' = [NoObs EXCEPT !.ev = "init", !.configured = TRUE]
    /\ UNCHANGED <<Static, emitted, completed, surface_configured, redraw_pending, now, init_failure>>

\* root crate lib.rs, wasm32: App::resumed stores new_wasm(window) and calls
\* wasm_runtime_setup() without awaiting it: the future is dropped unpolled, so
\* none of its body runs
lib_resumed_wasm ==
    /\ host = "lib" /\ target = "wasm32"
    /\ proc = "init" /\ phase = "Uninitialized"
    /\ \E size \in Sizes : ctx' = Some(new_wasm(size))
    /\ phase' = "SurfaceBound"
    /\ proc' = "running"
    /\ last' = [NoObs EXCEPT !.ev = "init", !.partial = TRUE]
    /\ UNCHANGED <<Static, emitted, completed, local_size, surface, surface_configured, redraw_pending, now, init_failure>>

\* -------------------------------------------------------------- host loops
\* What each host loop does with the value render() returned.
workspace_match(result) ==
    CASE result = "Ok" -> "continue"
      [] result \in {"Lost", "Outdated"} -> "resize"
      [] result = "OutOfMemory" -> "exit"
      [] result = "Timeout" -> "continue"

main_match(result) ==
    CASE result = "Ok" -> "continue"
      [] result = "Lost" -> "resize"
      [] result = "OutOfMemory" -> "exit"
      [] OTHER -> "continue"

\* lib.rs drops the value
lib_match(result) == "continue"

RenderGate_open(configured) == TRUE

\* the redraw gate of the workspace host: if !surface_configured { return; }
RenderGate(configured) == configured

\* the state a redraw handler leaves, given what render returned (r), what the
\* host does with it (k) and what resize(size) would do (z)
RedrawEffect(r, k, z, acq, requested) ==
    /\ ctx' = Some(IF k = "resize" THEN z.ctx ELSE r.ctx)
    /\ surface' = IF k = "resize" THEN z.surface ELSE surface
    /\ proc' = CASE k = "panic" -> "aborted"
                 [] k = "resize" /\ z.panicked -> "aborted"
                 [] k = "exit" -> "exited"
                 [] OTHER -> "running"
    /\ now' = r.now
    /\ redraw_pending' = requested
    /\ emitted' = IF IsSome(r.snapshot) THEN emitted + 1 ELSE emitted
    /\ completed' = IF r.result = "Ok" THEN completed + 1 ELSE completed
    /\ last' = [NoObs EXCEPT !.ev = "redraw",
                             !.partial = ~Complete(Unwrap(ctx)),
                             !.size = Unwrap(ctx).size,
                             !.render_called = TRUE,
                             !.acquire = GetCurrentTexture(surface, acq),
                             !.result = r.result,
                             !.steps = r.steps,
                             !.pass = r.pass,
                             !.snapshot = r.snapshot,
                             !.resize_called = (k = "resize"),
                             !.configured = (k = "resize" /\ z.configured),
                             !.redraw_requested = requested,
                             !.exit_requested = (k = "exit")]

\* src/workspace/src/lib.rs, WindowEvent::Resized, for the sizes the platform
\* may report
workspace_ResizedIn(sizes) ==
    /\ host = "workspace" /\ proc = "running" /\ IsSome(ctx)
    /\ \E new_size \in sizes :
          LET z == resize(Unwrap(ctx), surface, new_size)
          IN /\ surface_configured' = TRUE
             /\ ctx' = Some(z.ctx)
             /\ surface' = z.surface
             /\ proc' = IF z.panicked THEN "aborted" ELSE "running"
             /\ last' = [NoObs EXCEPT !.ev = "resized", !.size = new_size,
                                      !.partial = ~Complete(Unwrap(ctx)),
                                      !.resize_called = TRUE,
                                      !.configured = z.configured,
                                      !.result = IF z.panicked THEN "panic" ELSE "none"]
    /\ UNCHANGED <<Static, emitted, completed, local_size, phase, redraw_pending, now, init_failure>>

workspace_Resized == workspace_ResizedIn(Sizes)

\* src/workspace/src/lib.rs, WindowEvent::RedrawRequested, while the clock is
\* below max_now, for the acquisition outcomes and frame durations the
\* platform may produce
workspace_RedrawRequestedWith(max_now, outcomes, frame_times) ==
    /\ host = "workspace" /\ proc = "running" /\ IsSome(ctx)
    /\ IF ~RenderGate(surface_configured)
       THEN /\ redraw_pending' = TRUE
            /\ last' = [NoObs EXCEPT !.ev = "redraw", !.redraw_requested = TRUE,
                                     !.size = Unwrap(ctx).size,
                                     !.partial = ~Complete(Unwrap(ctx))]
            /\ UNCHANGED <<ctx, surface, proc, now, emitted, completed>>
       ELSE /\ now < max_now
            /\ \E acq \in outcomes, frame_time \in frame_times :
                  LET r == render(Unwrap(ctx), surface, acq, frame_time, target, now)
                      k == IF r.result = "panic" THEN "panic" ELSE workspace_match(r.result)
                      z == resize(r.ctx, surface, r.ctx.size)
                  IN RedrawEffect(r, k, z, acq, TRUE)
    /\ UNCHANGED <<Static, local_size, phase, surface_configured, init_failure>>

workspace_RedrawRequested ==
    workspace_RedrawRequestedWith(MaxNow, AcquireOutcomes, FrameTimes)

\* src/workspace/src/lib.rs, CloseRequested or Escape pressed
workspace_CloseRequested ==
    /\ host = "workspace" /\ proc = "running" /\ IsSome(ctx)
    /\ proc' = "exited"
    /\ last' = [NoObs EXCEPT !.ev = "close", !.exit_requested = TRUE]
    /\ UNCHANGED <<Static, emitted, completed, local_size, phase, ctx, surface, surface_configured, redraw_pending,
                   now, init_failure>>

\* src/src/main.rs, WindowEvent::Resized
main_Resized ==
    /\ host = "main" /\ proc = "running" /\ IsSome(ctx)
    /\ \E new_size \in Sizes :
          LET z == root_resize(Unwrap(ctx), surface, new_size)
          IN /\ ctx' = Some(z.ctx)
             /\ surface' = z.surface
             /\ proc' = IF z.panicked THEN "aborted" ELSE "running"
             /\ redraw_pending' = (redraw_pending \/ ~z.panicked)
             /\ last' = [NoObs EXCEPT !.ev = "resized", !.size = new_size,
                                      !.partial = ~Complete(Unwrap(ctx)),
                                      !.resize_called = TRUE,
                                      !.configured = z.configured,
                                      !.redraw_requested = ~z.panicked,
                                      !.result = IF z.panicked THEN "panic" ELSE "none"]
    /\ UNCHANGED <<Static, emitted, completed, local_size, phase, surface_configured, now, init_failure>>

\* src/src/main.rs, WindowEvent::RedrawRequested
main_RedrawRequested ==
    /\ host = "main" /\ proc = "running" /\ IsSome(ctx)
    /\ now < MaxNow
    /\ \E acq \in AcquireOutcomes, frame_time \in FrameTimes :
          LET r == root_render(Unwrap(ctx), surface, acq, frame_time, target, now)
              k == IF r.result = "panic" THEN "panic" ELSE main_match(r.result)
              z == root_resize(r.ctx, surface, r.ctx.size)
          IN RedrawEffect(r, k, z, acq, k # "panic" /\ ~(k = "resize" /\ z.panicked))
    /\ UNCHANGED <<Static, local_size, phase, surface_configured, init_failure>>

\* src/src/main.rs, WindowEvent::CloseRequested
main_CloseRequested ==
    /\ host = "main" /\ proc = "running" /\ IsSome(ctx)
    /\ proc' = "exited"
    /\ last' = [NoObs EXCEPT !.ev = "close", !.exit_requested = TRUE]
    /\ UNCHANGED <<Static, emitted, completed, local_size, phase, ctx, surface, surface_configured, redraw_pending,
                   now, init_failure>>

\* src/src/lib.rs, WindowEvent::Resized
lib_Resized ==
    /\ host = "lib" /\ proc = "running" /\ IsSome(ctx)
    /\ \E new_size \in Sizes :
          LET z == root_resize(Unwrap(ctx), surface, new_size)
          IN /\ ctx' = Some(z.ctx)
             /\ surface' = z.surface
             /\ proc' = IF z.panicked THEN "aborted" ELSE "running"
             /\ redraw_pending' = (redraw_pending \/ ~z.panicked)
             /\ last' = [NoObs EXCEPT !.ev = "resized", !.size = new_size,
                                      !.partial = ~Complete(Unwrap(ctx)),
                                      !.resize_called = TRUE,
                                      !.configured = z.configured,
                                      !.redraw_requested = ~z.panicked,
                                      !.result = IF z.panicked THEN "panic" ELSE "none"]
    /\ UNCHANGED <<Static, emitted, completed, local_size, phase, surface_configured, now, init_failure>>

\* src/src/lib.rs, WindowEvent::RedrawRequested: the value of render() is dropped
lib_RedrawRequested ==
    /\ host = "lib" /\ proc = "running" /\ IsSome(ctx)
    /\ now < MaxNow
    /\ \E acq \in AcquireOutcomes, frame_time \in FrameTimes :
          LET r == root_render(Unwrap(ctx), surface, acq, frame_time, target, now)
              k == IF r.result = "panic" THEN "panic" ELSE lib_match(r.result)
              z == root_resize(r.ctx, surface, r.ctx.size)
          IN RedrawEffect(r, k, z, acq, k # "panic")
    /\ UNCHANGED <<Static, local_size, phase, surface_configured, init_failure>>

\* src/src/lib.rs, WindowEvent::CloseRequested
lib_CloseRequested ==
    /\ host = "lib" /\ proc = "running" /\ IsSome(ctx)
    /\ proc' = "exited"
    /\ last' = [NoObs EXCEPT !.ev = "close", !.exit_requested = TRUE]
    /\ UNCHANGED <<Static, emitted, completed, local_size, phase, ctx, surface, surface_configured, redraw_pending,
                   now, init_failure>>

Next ==
    \/ new_CreateSurface
    \/ new_RequestAdapter
    \/ new_RequestDevice
    \/ new_Finish
    \/ new_async_CreateSurface
    \/ new_async_RequestAdapter
    \/ new_async_RequestDevice
    \/ new_async_Finish
    \/ lib_resumed_wasm
    \/ workspace_Resized
    \/ workspace_RedrawRequested
    \/ workspace_CloseRequested
    \/ main_Resized
    \/ main_RedrawRequested
    \/ main_CloseRequested
    \/ lib_Resized
    \/ lib_RedrawRequested
    \/ lib_CloseRequested

Spec == Init /\ [][Next]_vars

\* the event loop keeps dispatching events while the process lives
FairSpec == Spec /\ WF_vars(Next)

\* ------------------------------------------------------- a long session
\* The workspace host from the moment run() holds its context (window of
\* 1 x 1, clock at 0), with a platform that reports two sizes, acquires the
\* frame or loses the surface, and takes 1..MaxStatTime ticks per frame: long
\* enough for the statistics to report.
StatsCaps == CHOOSE caps \in CapsSet : caps.formats[1] = "Bgra8UnormSrgb"

StatsInit ==
    /\ host = "workspace" /\ target \in Targets
    /\ surface_caps = StatsCaps
    /\ local_size = None
    /\ proc = "running"
    /\ phase = "SurfaceConfigured"
    /\ ctx = Some(new(<<1, 1>>, StatsCaps, 0, 0).ctx)
    /\ surface = new(<<1, 1>>, StatsCaps, 0, 0).surface
    /\ surface_configured = FALSE
    /\ redraw_pending = FALSE
    /\ now = 0
    /\ init_failure = "none"
    /\ last = [NoObs EXCEPT !.ev = "init", !.configured = TRUE]
    /\ emitted = 0
    /\ completed = 0
    /\ job = NoJob

stats_Resized == workspace_ResizedIn({<<0, 1>>, <<1, 1>>})

stats_RedrawRequested ==
    workspace_RedrawRequestedWith(MaxStatNow, {"Ok", "Lost"}, 1..MaxStatTime)

StatsNext ==
    \/ stats_Resized
    \/ stats_RedrawRequested

StatsSpec == StatsInit /\ [][StatsNext]_vars

\* ----------------------------------------------------------- pure functions
\* The Instance Populator and the frame statistics, run on their own: a job is
\* the function's inputs and, as it runs, its outputs.
Durations == 0..MaxDuration

DurationSeqs == UNION {[1..n -> Durations] : n \in 0..MaxRecorded}

InstanceJobs ==
    {[kind |-> "create_star_instances", crate |-> c, tgt |-> t, runs |-> <<>>] :
        c \in {"workspace", "root"}, t \in Targets}

FrameStatsJobs ==
    {[kind |-> "FrameStats", pending |-> d, recorded |-> <<>>, fs |-> FrameStats_new] :
        d \in DurationSeqs}

Program == <<host, target, local_size, surface_caps, proc, phase, ctx, surface,
             surface_configured, redraw_pending, now, init_failure, last, emitted,
             completed>>

PureInit ==
    /\ host = "workspace" /\ target = "native"
    /\ surface_caps = CHOOSE caps \in CapsSet : caps.formats[1] = "Bgra8UnormSrgb"
    /\ local_size = None
    /\ proc = "init"
    /\ phase = "Uninitialized"
    /\ ctx = None
    /\ surface = Surface_new
    /\ surface_configured = FALSE
    /\ redraw_pending = FALSE
    /\ now = 0
    /\ init_failure = "none"
    /\ last = NoObs
    /\ emitted = 0
    /\ completed = 0
    /\ job \in InstanceJobs \cup FrameStatsJobs

\* one invocation of create_star_instances(), of either crate, built for job.tgt
run_create_star_instances ==
    /\ job.kind = "create_star_instances" /\ Len(job.runs) < 2
    /\ \E seed \in RngSeeds(job.tgt) :
          job' = [job EXCEPT !.runs = Append(@, IF job.crate = "workspace"
                                                THEN create_star_instances(seed)
                                                ELSE root_create_star_instances(seed))]
    /\ UNCHANGED Program

\* FrameStats::update(frame_time) with the next duration
run_update ==
    /\ job.kind = "FrameStats" /\ job.pending # <<>>
    /\ job' = [job EXCEPT !.pending = Tail(@),
                          !.recorded = Append(@, Head(job.pending)),
                          !.fs = update(@, Head(job.pending))]
    /\ UNCHANGED Program

PureNext ==
    \/ run_create_star_instances
    \/ run_update

PureSpec == PureInit /\ [][PureNext]_vars

\* ------------------------------------------------------------------ claims
AcquireErrors == {"Lost", "Outdated", "OutOfMemory", "Timeout"}

ZeroSize(size) == size[1] = 0 \/ size[2] = 0

\* resize as the host's crate defines it
ResizeOf(h, c, s, new_size) ==
    IF h = "workspace" THEN resize(c, s, new_size) ELSE root_resize(c, s, new_size)

\* C1: whenever the frame acquisition of a render() fails, render() returns
\* that error kind to its caller and the process keeps running.
C1_RenderReturnsErrorKind ==
    (last.render_called /\ last.acquire \in AcquireErrors)
        => (last.result = last.acquire /\ proc # "aborted")

\* C2: a render() whose frame acquisition fails with SurfaceLost or
\* SurfaceOutdated is followed, in the same redraw handler, by a resize that
\* invokes surface.configure, in every host and for every stored size.
C2_LostOrOutdatedReconfigures ==
    (last.render_called /\ last.acquire \in {"Lost", "Outdated"})
        => (last.resize_called /\ last.configured)

\* C3: once a render() has met SurfaceLost or SurfaceOutdated, a later
\* render() (after the resize) succeeds.
C3_RetryAfterResizeSucceeds ==
    (last.render_called /\ last.acquire \in {"Lost", "Outdated"})
        ~> (last.render_called /\ last.result = "Ok")

\* C4: whenever the host has dispatched a resize or a render to the context
\* it holds, every optional field of that context was present, on either
\* target.
C4_NoPartialContext ==
    (IsSome(ctx) /\ last.ev \in {"resized", "redraw"}) => ~last.partial

\* C5: if adapter selection or the device request failed, the process is
\* aborted, the host holds no context, the surface was never configured and
\* no handler (resize, render) has run or runs afterwards.
C5_InitFailureIsTerminal ==
    init_failure # "none"
        => /\ proc = "aborted"
           /\ ctx = None
           /\ surface = Surface_new
           /\ last = NoObs
           /\ ~redraw_pending

C5_Witness ==
    /\ init_failure = "DeviceRequestFailed"
    /\ proc = "aborted"
    /\ phase = "AdapterSelected"

\* C6: a Resized notification with a zero width or height changes neither the
\* context (size, configuration) nor the surface, and surface.configure is not
\* invoked.
C6_ZeroResizeIsNoOp ==
    [][(last'.ev = "resized" /\ ZeroSize(last'.size))
          => /\ ctx' = ctx
             /\ surface' = surface
             /\ ~last'.configured
             /\ proc' = proc]_vars

C6_Witness ==
    /\ last.ev = "resized" /\ last.size = <<0, 2>>
    /\ proc = "running"
    /\ IsSome(ctx) /\ Complete(Unwrap(ctx))
    /\ Unwrap(ctx).size = <<1, 2>>
    /\ ~last.configured

\* C7: on an initialized context, a Resized notification with w > 0 and h > 0
\* leaves size = (w,h) and configuration width, height = (w,h), has invoked
\* surface.configure with that configuration, and the same resize applied
\* again changes neither the context nor the surface.
C7_ResizeSetsExactlyAndIsIdempotent ==
    [][(last'.ev = "resized" /\ ~ZeroSize(last'.size) /\ Complete(Unwrap(ctx)))
          => LET c == Unwrap(ctx')
                 again == ResizeOf(host, c, surface', last'.size)
             IN /\ c.size = last'.size
                /\ Unwrap(c.config).width = last'.size[1]
                /\ Unwrap(c.config).height = last'.size[2]
                /\ last'.configured
                /\ surface'.config = c.config
                /\ proc' = "running"
                /\ again.ctx = c
                /\ again.surface = surface'
                /\ ~again.panicked]_vars

C7_Witness ==
    /\ last.ev = "resized" /\ last.size = <<2, 1>>
    /\ last.configured
    /\ IsSome(ctx) /\ Unwrap(ctx).size = <<2, 1>>
    /\ Unwrap(surface.config).width = 2 /\ Unwrap(surface.config).height = 1

\* C8: once the frame acquisition of a render() fails with OutOfMemory, the
\* host has requested event-loop exit.
C8_OutOfMemoryExits ==
    (last.render_called /\ last.acquire = "OutOfMemory")
        => (last.exit_requested /\ proc = "exited")

\* C9 (as stated): every Resized notification delivered to a host holding a
\* context calls resize, and every RedrawRequested calls render().
C9_EveryRedrawRenders ==
    /\ last.ev = "resized" => last.resize_called
    /\ last.ev = "redraw" => last.render_called

\* C9 (amended): every Resized notification calls resize; every
\* RedrawRequested calls render(), except in the workspace host while no
\* Resized notification has been handled yet, where it is skipped; a resize in
\* the workspace host requests no redraw.
C9_RedrawRendersOnceGateOpen ==
    /\ last.ev = "resized" => last.resize_called
    /\ last.ev = "redraw"
          => (last.render_called <=> (host # "workspace" \/ surface_configured))
    /\ (last.ev = "resized" /\ host = "workspace")
          => ~last.redraw_requested

C9_Witness ==
    /\ host = "workspace" /\ proc = "running"
    /\ ~surface_configured
    /\ last.ev = "redraw" /\ ~last.render_called /\ last.redraw_requested

\* C10: every render() that returns Ok recorded one pass with exactly one
\* indexed draw, over indices 0..index_count of the star mesh (15 = 3 * 5) and
\* instances 0..500, with an instance buffer of exactly 500 instances bound;
\* every context that has an instance buffer has 500 instances in it.
C10_OneDrawOverAllInstances ==
    /\ (last.render_called /\ last.result = "Ok")
          => /\ IsSome(last.pass)
             /\ LET pass == Unwrap(last.pass)
                IN /\ Len(pass.draws) = 1
                   /\ pass.draws[1].indices = <<0, Len(Unwrap(Unwrap(ctx).index_buffer))>>
                   /\ pass.draws[1].indices = <<0, 3 * 5>>
                   /\ pass.index_buffer = 3 * 5
                   /\ pass.draws[1].instances = <<0, 500>>
                   /\ pass.vertex_buffer_1 = 500
    /\ (IsSome(ctx) /\ IsSome(Unwrap(ctx).instance_buffer))
          => Unwrap(Unwrap(ctx).instance_buffer).len = 500

C10_Witness ==
    /\ last.render_called /\ last.result = "Ok"
    /\ IsSome(last.pass)
    /\ Len(Unwrap(last.pass).draws) = 1
    /\ now > 0

\* what the context holds for the GPU besides the elapsed-time uniform
StaticResources(c) ==
    <<c.vertex_buffer, c.num_vertices, c.index_buffer, c.num_indices,
      c.instance_buffer, c.render_pipeline, c.uniform_bind_group>>

\* C11: once the context exists, no resize and no render writes, replaces or
\* rebuilds the vertex, index or instance buffer, the pipeline or the bind
\* group; the uniform changes only in a render that reached UpdateUniform,
\* and the pipeline of a context has been built exactly once.
C11_OnlyUniformWrittenPerFrame ==
    [][ /\ (IsSome(ctx) /\ IsSome(ctx')) =>
              /\ StaticResources(Unwrap(ctx')) = StaticResources(Unwrap(ctx))
              /\ Unwrap(ctx').uniform_buffer # Unwrap(ctx).uniform_buffer =>
                    /\ last'.ev = "redraw" /\ last'.result = "Ok"
                    /\ last'.steps[2] = "UpdateUniform"
        /\ (IsSome(ctx') /\ IsSome(Unwrap(ctx').render_pipeline)) =>
              Unwrap(Unwrap(ctx').render_pipeline).builds = 1 ]_vars

\* a second frame has written a new elapsed time after a resize configured
\* the surface
C11_Witness ==
    /\ host = "workspace" /\ surface_configured /\ IsSome(ctx)
    /\ last.ev = "redraw" /\ last.result = "Ok"
    /\ Unwrap(ctx).uniform_buffer # Some(0)
    /\ Unwrap(ctx).size # <<0, 0>>

\* C12: the geometry factory yields num_points + 1 vertices and 3 * num_points
\* indices (6 and 15 for the five-pointed star, in both copies), the context
\* stores exactly these counts, and the loops give n + 1 and 3n for every
\* point count n from 3 up.
C12_GeometryCounts ==
    /\ \A n \in 3..MaxPoints :
          /\ Len(OuterLoopFor(n, 0, <<[center |-> TRUE, k |-> 0]>>)) = n + 1
          /\ Len(IndexLoopFor(n, 0, <<>>)) = 3 * n
    /\ OuterLoopFor(num_points, 0, <<[center |-> TRUE, k |-> 0]>>) = get_vertices
    /\ IndexLoopFor(num_points, 0, <<>>) = IndexLoop(0, <<>>)
    /\ IndexLoopFor(num_points, 0, <<>>) = root_IndexLoop(0, <<>>)
    /\ (IsSome(ctx) /\ Complete(Unwrap(ctx))) =>
          LET c == Unwrap(ctx)
          IN /\ Len(Unwrap(c.vertex_buffer)) = 6
             /\ Len(Unwrap(c.index_buffer)) = 15
             /\ c.num_vertices = Some(num_points + 1)
             /\ c.num_indices = Some(3 * num_points)
             /\ c.num_vertices = Some(Len(Unwrap(c.vertex_buffer)))
             /\ c.num_indices = Some(Len(Unwrap(c.index_buffer)))

\* a context of each crate has been built and holds its counts
C12_Witness ==
    /\ IsSome(ctx) /\ Complete(Unwrap(ctx)) /\ last.ev = "init"
    /\ Unwrap(ctx).num_vertices = Some(6) /\ Unwrap(ctx).num_indices = Some(15)

\* C13: the index sequence of the five-pointed star is
\* 0,1,3, 0,2,4, 0,3,5, 0,4,1, 0,5,2; the copy of the workspace crate and the
\* copy of the root crate emit the same sequence, and it is what every
\* context holds in its index buffer.
C13_IndexSequence ==
    /\ create_star_vertices.indices = <<0, 1, 3, 0, 2, 4, 0, 3, 5, 0, 4, 1, 0, 5, 2>>
    /\ root_create_star_vertices.indices = create_star_vertices.indices
    /\ (IsSome(ctx) /\ IsSome(Unwrap(ctx).index_buffer)) =>
          Unwrap(Unwrap(ctx).index_buffer) = <<0, 1, 3, 0, 2, 4, 0, 3, 5, 0, 4, 1, 0, 5, 2>>

\* a context of the root crate holds the sequence, with the wrap-around of
\* the fourth triangle (0, 4, 1)
C13_Witness ==
    /\ host = "main" /\ IsSome(ctx) /\ IsSome(Unwrap(ctx).index_buffer)
    /\ SubSeq(Unwrap(Unwrap(ctx).index_buffer), 10, 12) = <<0, 4, 1>>

\* C14: built for wasm32, where the generator is seeded with the constant 0,
\* any two invocations of the Instance Populator return the same sequence,
\* and it has exactly 500 instances.
C14_Wasm32InstancesAreReproducible ==
    (job.kind = "create_star_instances" /\ job.tgt = "wasm32") =>
        /\ \A i \in 1..Len(job.runs) : Len(job.runs[i]) = 500
        /\ \A i, j \in 1..Len(job.runs) : job.runs[i] = job.runs[j]

\* the populator has been invoked twice in a wasm32 build
C14_Witness ==
    /\ job.kind = "create_star_instances" /\ job.tgt = "wasm32"
    /\ Len(job.runs) = 2 /\ Len(job.runs[2]) = STAR_INSTANCE_COUNT

\* C15: every instance, whichever target's randomness source is used, has
\* position within [-0.9, 0.9] on both axes, scale within [0.02, 0.05],
\* initial_rotation in [0, 2*PI) with 2*PI excluded, speed within [-0.3, 0.3]
\* on both axes and rotation_speed within [0.5, 2.0] (values in thousandths).
InRange(x, lo, hi) == lo <= x /\ x <= hi

C15_InstanceRanges ==
    job.kind = "create_star_instances" =>
        \A r \in 1..Len(job.runs) : \A i \in 1..Len(job.runs[r]) :
            LET inst == job.runs[r][i]
            IN /\ InRange(inst.position[1], 0 - 900, 900)
               /\ InRange(inst.position[2], 0 - 900, 900)
               /\ InRange(inst.scale, 20, 50)
               /\ 0 <= inst.initial_rotation /\ inst.initial_rotation < TWO_PI_MILLI
               /\ InRange(inst.speed[1], 0 - 300, 300)
               /\ InRange(inst.speed[2], 0 - 300, 300)
               /\ InRange(inst.rotation_speed, 500, 2000)

\* 500 instances have been generated from an operating-system seed
C15_Witness ==
    /\ job.kind = "create_star_instances" /\ job.tgt = "native"
    /\ Len(job.runs) >= 1 /\ Len(job.runs[1]) = 500
    /\ \E i \in 1..500 : job.runs[1][i].initial_rotation > 5000

RECURSIVE SeqSum(_)
SeqSum(q) == IF q = <<>> THEN 0 ELSE Head(q) + SeqSum(Tail(q))

SeqMin(q) == CHOOSE x \in {q[i] : i \in 1..Len(q)} : \A i \in 1..Len(q) : x <= q[i]

SeqMax(q) == CHOOSE x \in {q[i] : i \in 1..Len(q)} : \A i \in 1..Len(q) : x >= q[i]

\* C16: the average of the statistics is 0 while no frame is recorded and
\* sum / count afterwards; after any sequence of durations min is the
\* smallest, max the largest and count their number; recording 1, 2, 3 gives
\* min 1, max 3, average 2, count 3.
C16_FrameStatsSummary ==
    job.kind = "FrameStats" =>
        LET q == job.recorded
            d == display_stats(job.fs)
        IN /\ d.count = Len(q)
           /\ job.fs.total_time = SeqSum(q)
           /\ q = <<>> => average_time(job.fs) = <<0, 1>>
           /\ q # <<>> =>
                 /\ d.min = SeqMin(q)
                 /\ d.max = SeqMax(q)
                 /\ d.average[2] > 0
                 /\ d.average[1] * Len(q) = SeqSum(q) * d.average[2]
           /\ q = <<1, 2, 3>> =>
                 d = [min |-> 1, max |-> 3, average |-> <<2, 1>>, count |-> 3]

\* the durations 1, 2, 3 have been recorded
C16_Witness ==
    /\ job.kind = "FrameStats" /\ job.recorded = <<1, 2, 3>>
    /\ job.fs.frame_count = 3

\* a frame was recorded by the last handler: render() returned Ok
RecordedFrame(obs) == obs.ev = "redraw" /\ obs.result = "Ok"

\* C17: a statistics snapshot is emitted exactly by the renders that record
\* a frame whose number is a multiple of 60, on both targets: none in the
\* first 59 frames, and after n recorded frames floor(n / 60) snapshots have
\* been emitted.
C17_SnapshotEvery60thFrame ==
    IsSome(ctx) =>
        LET fs == Unwrap(ctx).frame_stats
        IN /\ emitted = fs.frame_count \div 60
           /\ fs.frame_count <= 59 => emitted = 0
           /\ IsSome(last.snapshot) <=>
                 (RecordedFrame(last) /\ fs.frame_count % 60 = 0)
           /\ IsSome(last.snapshot) => Unwrap(last.snapshot).count = fs.frame_count

\* the 120th frame has just been recorded in a wasm32 build and the second
\* snapshot emitted
C17_Witness ==
    /\ target = "wasm32" /\ IsSome(ctx)
    /\ Unwrap(ctx).frame_stats.frame_count = 120
    /\ emitted = 2 /\ IsSome(last.snapshot)

\* C18: the statistics aggregate is never reset: a recorded frame raises
\* count by exactly 1 and lowers neither sum nor max and raises not min;
\* every other step (a resize, a skipped or failed redraw) leaves the
\* aggregate as it is; a snapshot shows the aggregate and changes nothing.
C18_StatsMonotonic ==
    [][ (IsSome(ctx) /\ IsSome(ctx')) =>
          LET a == Unwrap(ctx).frame_stats
              b == Unwrap(ctx').frame_stats
          IN /\ b.frame_count >= a.frame_count
             /\ b.total_time >= a.total_time
             /\ b.max_time >= a.max_time
             /\ b.min_time <= a.min_time
             /\ RecordedFrame(last') => b.frame_count = a.frame_count + 1
             /\ ~RecordedFrame(last') => b = a
             /\ IsSome(last'.snapshot) =>
                   /\ Unwrap(last'.snapshot) = display_stats(b)
                   /\ b.frame_count = a.frame_count + 1 ]_vars

\* a resize has followed a snapshot, with frames of different durations
\* recorded and more than 60 of them
C18_Witness ==
    /\ IsSome(ctx) /\ last.ev = "resized" /\ emitted >= 1
    /\ Unwrap(ctx).frame_stats.frame_count > 60
    /\ Unwrap(ctx).frame_stats.min_time < Unwrap(ctx).frame_stats.max_time

C20_SurfaceConfigMatchesStored ==
    [][ /\ last'.render_called => surface.config = Unwrap(ctx).config
        /\ IsSome(ctx') => surface'.config = Unwrap(ctx').config ]_vars

\* a frame has been acquired after a resize that changed the configuration
C20_Witness ==
    /\ host = "workspace" /\ surface_configured /\ IsSome(ctx)
    /\ last.render_called /\ last.acquire = "Ok"
    /\ IsSome(surface.config)
    /\ Unwrap(surface.config).width = 2 /\ Unwrap(surface.config).height = 1
    /\ Unwrap(ctx).size = <<2, 1>>

StepOrder == <<"AcquireFrame", "UpdateUniform", "RecordCommands", "Submit", "Present">>

StepPos(step) == CHOOSE i \in 1..Len(StepOrder) : StepOrder[i] = step

Before(steps, a, b) ==
    \E i, j \in 1..Len(steps) : i < j /\ steps[i] = a /\ steps[j] = b

Occurs(steps, a) == \E i \in 1..Len(steps) : steps[i] = a

\* C21: the steps of one render() invocation are taken, each at most once,
\* in the order AcquireFrame, UpdateUniform, RecordCommands, Submit, Present:
\* a submission is preceded by the uniform write, a presentation by the
\* submission, and a render that returns Ok has taken all five.
C21_RenderStepOrder ==
    last.render_called =>
        LET st == last.steps
        IN /\ \A i \in 1..Len(st) : Occurs(StepOrder, st[i])
           /\ \A i, j \in 1..Len(st) : i < j => StepPos(st[i]) < StepPos(st[j])
           /\ Occurs(st, "Submit") => Before(st, "UpdateUniform", "Submit")
           /\ Occurs(st, "Present") => Before(st, "Submit", "Present")
           /\ Len(st) > 0 => st[1] = "AcquireFrame"
           /\ last.result = "Ok" => st = StepOrder

\* a render of the root crate has presented its frame
C21_Witness ==
    /\ host = "lib" /\ last.render_called /\ last.result = "Ok"
    /\ Len(last.steps) = 5 /\ last.steps[5] = "Present"

PhaseOrder ==
    <<"Uninitialized", "SurfaceBound", "AdapterSelected", "DeviceReady", "SurfaceConfigured">>

PhaseRank(p) == CHOOSE i \in 1..Len(PhaseOrder) : PhaseOrder[i] = p

\* C22: negotiation moves through Uninitialized, SurfaceBound,
\* AdapterSelected, DeviceReady, SurfaceConfigured one state at a time and
\* only forwards, so no state is entered twice; it moves only while the
\* context is under construction: no Resized, RedrawRequested or close step,
\* failed or not, changes the negotiation state, and a complete context is
\* in SurfaceConfigured.
C22_NegotiationIsLinear ==
    [][ /\ phase' # phase =>
              /\ PhaseRank(phase') = PhaseRank(phase) + 1
              /\ proc = "init"
        /\ proc = "running" => phase' = phase
        /\ (IsSome(ctx') /\ Complete(Unwrap(ctx'))) => phase' = "SurfaceConfigured" ]_vars

\* a configured context has been resized and has rendered, and is still in
\* SurfaceConfigured
C22_Witness ==
    /\ phase = "SurfaceConfigured" /\ proc = "running" /\ surface_configured
    /\ last.ev = "redraw" /\ last.result = "Ok" /\ now > 1

\* C23: the stored configuration of an initialized context always has
\* frame-latency cap 1 and the first format and first present mode the
\* platform reported; a step that changes the stored configuration changes
\* only its width and height.
C23_ConfigFixedButDimensions ==
    [][ (IsSome(ctx') /\ IsSome(Unwrap(ctx').config)) =>
          LET after == Unwrap(Unwrap(ctx').config)
          IN /\ after.desired_maximum_frame_latency = 1
             /\ after.format = surface_caps.formats[1]
             /\ after.present_mode = surface_caps.present_modes[1]
             /\ (IsSome(ctx) /\ IsSome(Unwrap(ctx).config)) =>
                   LET before == Unwrap(Unwrap(ctx).config)
                   IN [after EXCEPT !.width = before.width,
                                    !.height = before.height] = before ]_vars

\* a resize has just changed the dimensions of a configuration negotiated
\* with a platform that reports Rgba8Unorm and Mailbox first
C23_Witness ==
    /\ IsSome(ctx) /\ IsSome(Unwrap(ctx).config)
    /\ last.ev = "resized" /\ last.configured /\ last.size = <<2, 1>>
    /\ Unwrap(Unwrap(ctx).config).width = 2
    /\ Unwrap(Unwrap(ctx).config).format = "Rgba8Unorm"
    /\ Unwrap(Unwrap(ctx).config).present_mode = "Mailbox"

\* C24: in an initialized context the stored size equals the dimensions of
\* the stored configuration, for every initial window size and after any
\* resizes.
C24_SizeEqualsConfigDimensions ==
    (IsSome(ctx) /\ IsSome(Unwrap(ctx).config)) =>
        /\ Unwrap(ctx).size[1] = Unwrap(Unwrap(ctx).config).width
        /\ Unwrap(ctx).size[2] = Unwrap(Unwrap(ctx).config).height

\* C25: a render() that reaches Present was called on a context whose
\* queue, device, uniform buffer, pipeline, bind group, vertex, index and
\* instance buffers and index count are all present, and it has written the
\* uniform, recorded the pass and submitted it: no frame is presented with
\* the guarded block skipped.
C25_PresentImpliesDrawn ==
    [][ (last'.render_called /\ Occurs(last'.steps, "Present")) =>
          /\ IsSome(ctx) /\ Complete(Unwrap(ctx))
          /\ Occurs(last'.steps, "UpdateUniform")
          /\ Occurs(last'.steps, "RecordCommands")
          /\ Occurs(last'.steps, "Submit")
          /\ IsSome(last'.pass)
          /\ ~last'.partial ]_vars

\* a context built for a window of zero width has presented a frame
C25_Witness ==
    /\ IsSome(ctx) /\ ZeroSize(Unwrap(ctx).size)
    /\ last.render_called /\ Occurs(last.steps, "Present") /\ IsSome(last.pass)

\* C26: the recorded frame count of the workspace context equals the number
\* of render() calls that ran to the end and returned Ok: each of them
\* records one sample, and a render that fails at frame acquisition, a
\* resize and a redraw the host skipped record none.
C26_FrameCountIsCompletedRenders ==
    /\ IsNone(ctx) => completed = 0
    /\ (host = "workspace" /\ IsSome(ctx)) =>
          Unwrap(ctx).frame_stats.frame_count = completed

\* two frames were recorded, then a render failed at frame acquisition
C26_Witness ==
    /\ host = "workspace" /\ IsSome(ctx) /\ completed = 2
    /\ Unwrap(ctx).frame_stats.frame_count = 2
    /\ last.ev = "redraw" /\ last.render_called /\ last.result = "panic"

\* C27: in every host loop, once a redraw notification has been handled on
\* an initialized context without an exit being requested, whatever the
\* frame acquisition gave and also when the render was skipped, another
\* redraw has been requested and the loop is alive to deliver it.
C27_RedrawKeepsLoopAlive ==
    (last.ev = "redraw" /\ ~last.partial /\ ~last.exit_requested) =>
        /\ last.redraw_requested
        /\ redraw_pending
        /\ proc = "running"

Triangle(idx, t) == <<idx[3 * t - 2], idx[3 * t - 1], idx[3 * t]>>

\* C28: the index list a context draws with is well-formed: every index is
\* below the vertex count (at most 5) and the 16-bit conversion changed no
\* value; every triangle starts at index 0; each outer vertex 1..5 is the
\* second vertex of exactly one triangle and the third of exactly one; the
\* third vertex is two positions ahead of the second modulo 5; all five
\* triangles wind the same way and back-face culling removes none.
C28_IndexListWellFormed ==
    (IsSome(ctx) /\ IsSome(Unwrap(ctx).index_buffer)) =>
        LET idx == Unwrap(Unwrap(ctx).index_buffer)
            nv == Unwrap(Unwrap(ctx).num_vertices)
            T == 1..(Len(idx) \div 3)
        IN /\ Len(idx) = 3 * num_points
           /\ \A i \in 1..Len(idx) : idx[i] < nv /\ idx[i] <= 5 /\ idx[i] < U16
           /\ \A i \in 0..(num_points - 1) :
                 /\ AsU16(1 + i) = 1 + i
                 /\ AsU16(1 + ((i + 2) % num_points)) = 1 + ((i + 2) % num_points)
                 /\ Triangle(idx, i + 1) = <<0, 1 + i, 1 + ((i + 2) % num_points)>>
           /\ \A t \in T : Triangle(idx, t)[1] = 0
           /\ \A v \in 1..5 :
                 /\ Cardinality({t \in T : Triangle(idx, t)[2] = v}) = 1
                 /\ Cardinality({t \in T : Triangle(idx, t)[3] = v}) = 1
           /\ \A t \in T :
                 Triangle(idx, t)[3] - 1 = ((Triangle(idx, t)[2] - 1) + 2) % 5
           /\ \A t, u \in T : Winding(Triangle(idx, t)) = Winding(Triangle(idx, u))
           /\ \A t \in T : ~Culled(Triangle(idx, t))
           /\ IsSome(last.pass) => Unwrap(last.pass).index_format = "Uint16"

\* a context of the workspace crate has drawn with its index list, whose
\* last triangle wraps around to vertex 2
C28_Witness ==
    /\ host = "workspace" /\ IsSome(ctx) /\ IsSome(Unwrap(ctx).index_buffer)
    /\ IsSome(last.pass) /\ Unwrap(last.pass).index_buffer = 15
    /\ Triangle(Unwrap(Unwrap(ctx).index_buffer), 5) = <<0, 5, 2>>

====
